---- MODULE Spec2Model ----
(***************************************************************************)
(* Model of generate_citypacks.py: the batch job that reads a list of      *)
(* cities, queries a news feed per city, resolves entry links, and writes  *)
(* one JSON document of city packs.                                        *)
(*                                                                         *)
(* Python strings are sequences of characters; a character is a string    *)
(* of length one, and the non-ASCII characters used by the program are    *)
(* named by their code points.                                             *)
(***************************************************************************)
EXTENDS Integers, Sequences, FiniteSets, TLC

\* ---------------------------------------------------------------- bounds
MaxFeed == 9
MaxCities == 2
MaxTime == 1
FeedPeriod == 2
MaxTitleLen == 100
MaxWords == 3

\* ------------------------------------------------------------ characters
EmDash == "U+2014"
Ellipsis == "U+2026"

UpperCase == <<"A","B","C","D","E","F","G","H","I","J","K","L","M","N","O","P","Q","R","S","T","U","V","W","X","Y","Z">>
LowerCase == <<"a","b","c","d","e","f","g","h","i","j","k","l","m","n","o","p","q","r","s","t","u","v","w","x","y","z">>
UpperSet == {UpperCase[i] : i \in 1..26}
LowerSet == {LowerCase[i] : i \in 1..26}

\* str.strip() and the regex class \s
\* the 29 characters Python counts as white space
WhiteSpace ==
  { "\t", "\n", "U+000B", "\f", "\r", "U+001C", "U+001D", "U+001E", "U+001F",
    " ", "U+0085", "U+00A0", "U+1680", "U+2000", "U+2001", "U+2002", "U+2003",
    "U+2004", "U+2005", "U+2006", "U+2007", "U+2008", "U+2009", "U+200A",
    "U+2028", "U+2029", "U+202F", "U+205F", "U+3000" }
IsSpace(c) == c \in WhiteSpace

\* re.I: letters compare equal regardless of case
\* besides A-Z, four other characters match an ASCII letter: the dotted
\* capital I and the dotless i match i, the long s matches s, the Kelvin
\* sign matches k
Lower(c) ==
  CASE c \in UpperSet -> LowerCase[CHOOSE i \in 1..26 : UpperCase[i] = c]
    [] c \in {"U+0130", "U+0131"} -> "i"
    [] c = "U+017F" -> "s"
    [] c = "U+212A" -> "k"
    [] OTHER -> c
LowerStr(s) == [i \in 1..Len(s) |-> Lower(s[i])]

MinOf(S) == CHOOSE x \in S : \A y \in S : x <= y
MaxOf(S) == CHOOSE x \in S : \A y \in S : x >= y

\* s[:n]
Take(s, n) == SubSeq(s, 1, IF n < Len(s) THEN n ELSE Len(s))
\* sub in s
Contains(s, sub) ==
  \E i \in 0..(Len(s) - Len(sub)) : SubSeq(s, i + 1, i + Len(sub)) = sub

\* s.strip()
Strip(s) ==
  LET keep == {i \in 1..Len(s) : ~IsSpace(s[i])}
  IN  IF keep = {} THEN <<>> ELSE SubSeq(s, MinOf(keep), MaxOf(keep))

\* s.rsplit(" ", 1)[0]
RSplitHead(s) ==
  LET sp == {i \in 1..Len(s) : s[i] = " "}
  IN  IF sp = {} THEN s ELSE SubSeq(s, 1, MaxOf(sp) - 1)

\* x or y, for strings
Or(x, y) == IF x = <<>> THEN y ELSE x

\* ------------------------------------------------------------ pick_emoji
DefaultEmoji == "U+1F4F0"
WeatherEmoji == "U+1F327 U+FE0F"

EMOJI_RULES == <<
  [rx |-> {<<"s","u","b","w","a","y">>,
           <<"m","e","t","r","o">>,
           <<"r","a","i","l">>,
           <<"t","r","a","i","n">>,
           <<"a","i","r","p","o","r","t">>,
           <<"f","l","i","g","h","t">>,
           <<"t","r","a","n","s","i","t">>},
   em |-> "U+1F687"],
  [rx |-> {<<"s","t","o","r","m">>,
           <<"s","n","o","w">>,
           <<"r","a","i","n">>,
           <<"f","l","o","o","d">>,
           <<"h","e","a","t">>,
           <<"w","i","l","d","f","i","r","e">>,
           <<"e","a","r","t","h","q","u","a","k","e">>,
           <<"h","u","r","r","i","c","a","n","e">>},
   em |-> "U+1F327 U+FE0F"],
  [rx |-> {<<"m","a","y","o","r">>,
           <<"c","o","u","n","c","i","l">>,
           <<"p","a","r","l","i","a","m","e","n","t">>,
           <<"c","o","n","g","r","e","s","s">>,
           <<"g","o","v","e","r","n","m","e","n","t">>,
           <<"p","o","l","i","c","y">>,
           <<"e","l","e","c","t","i","o","n">>},
   em |-> "U+1F3DB U+FE0F"],
  [rx |-> {<<"c","o","u","r","t">>,
           <<"j","u","d","g","e">>,
           <<"t","r","i","a","l">>,
           <<"l","a","w","s","u","i","t">>,
           <<"l","e","g","a","l">>},
   em |-> "U+2696 U+FE0F"],
  [rx |-> {<<"m","u","s","i","c">>,
           <<"f","e","s","t","i","v","a","l">>,
           <<"c","o","n","c","e","r","t">>,
           <<"t","o","u","r">>},
   em |-> "U+1F3B6"],
  [rx |-> {<<"a","r","t">>,
           <<"m","u","s","e","u","m">>,
           <<"e","x","h","i","b","i","t">>,
           <<"g","a","l","l","e","r","y">>,
           <<"t","h","e","a","t","e","r">>,
           <<"t","h","e","a","t","r","e">>,
           <<"b","r","o","a","d","w","a","y">>,
           <<"f","i","l","m">>},
   em |-> "U+1F3AD"],
  [rx |-> {<<"s","o","c","c","e","r">>,
           <<"f","o","o","t","b","a","l","l">>,
           <<"n","b","a">>,
           <<"n","f","l">>,
           <<"m","l","b">>,
           <<"n","h","l">>,
           <<"w","i","n">>,
           <<"b","e","a","t">>,
           <<"m","a","t","c","h">>,
           <<"g","a","m","e">>},
   em |-> "U+1F3DF U+FE0F"],
  [rx |-> {<<"r","e","s","t","a","u","r","a","n","t">>,
           <<"f","o","o","d">>,
           <<"c","h","e","f">>,
           <<"d","i","n","i","n","g">>},
   em |-> "U+1F37D U+FE0F"],
  [rx |-> {<<"t","e","c","h">>,
           <<"a","i">>,
           <<"s","t","a","r","t","u","p">>,
           <<"s","o","f","t","w","a","r","e">>,
           <<"c","h","i","p">>,
           <<"c","y","b","e","r">>},
   em |-> "U+1F4BB"],
  [rx |-> {<<"p","o","r","t">>,
           <<"h","a","r","b","o","r">>,
           <<"h","a","r","b","o","u","r">>,
           <<"s","h","i","p">>,
           <<"c","r","u","i","s","e">>},
   em |-> "U+2693 U+FE0F"]
>>

\* rx.search(title) for a pattern that is an alternation of literal words,
\* compiled with re.I
Search(rx, title) == \E kw \in rx : Contains(LowerStr(title), kw)

pick_emoji_last(title) ==
  LET hit == {i \in 1..Len(EMOJI_RULES) : Search(EMOJI_RULES[i].rx, Or(title, <<>>))}
  IN  IF hit = {} THEN DefaultEmoji ELSE EMOJI_RULES[MaxOf(hit)].em

pick_emoji(title) ==
  LET hit == {i \in 1..Len(EMOJI_RULES) : Search(EMOJI_RULES[i].rx, Or(title, <<>>))}
  IN  IF hit = {} THEN DefaultEmoji ELSE EMOJI_RULES[MinOf(hit)].em

\* ------------------------------------------------------- clue_from_title
starters == <<
  <<"Y","e","s","t","e","r","d","a","y",","," ","t","h","e"," ","f","r","o","n","t"," ","p","a","g","e"," ","l","e","d"," ","w","i","t","h",":"," ">>,
  <<"Y","e","s","t","e","r","d","a","y",","," ","e","v","e","r","y","o","n","e"," ","w","a","s"," ","t","a","l","k","i","n","g"," ","a","b","o","u","t",":"," ">>,
  <<"Y","e","s","t","e","r","d","a","y",","," ","a"," ","h","e","a","d","l","i","n","e"," ","t","h","a","t"," ","s","t","o","o","d"," ","o","u","t",":"," ">>,
  <<"Y","e","s","t","e","r","d","a","y",","," ","t","h","e"," ","b","i","g","g","e","s","t"," ","b","u","z","z"," ","w","a","s"," ","a","b","o","u","t",":"," ">>
>>

\* [A-Za-z\s\-]
InPrefixClass(c) == c \in UpperSet \/ c \in LowerSet \/ IsSpace(c) \/ c = "-"

\* re.sub(r"^[A-Z][A-Za-z\s\-]+\s+<em dash>\s+", "", t): the class run after
\* the capital cannot cross the dash, so the dash is the first character
\* outside the class; it needs a class character and then white space
\* before it and white space after it, all of which is removed.
StripCityPrefix(t) ==
  IF Len(t) = 0 \/ t[1] \notin UpperSet THEN t
  ELSE LET out == {i \in 2..Len(t) : ~InPrefixClass(t[i])}
       IN  IF out = {} THEN t
           ELSE LET k == MinOf(out)
                    rest == {i \in (k + 1)..Len(t) : ~IsSpace(t[i])}
                    j == IF rest = {} THEN Len(t) + 1 ELSE MinOf(rest)
                IN  IF t[k] = EmDash /\ k >= 4 /\ IsSpace(t[k - 1]) /\ j > k + 1
                    THEN SubSeq(t, j, Len(t))
                    ELSE t

TitleLimit == 95
CutAt == 92

Shorten_never(t) == t

\* if len(t) > 95: t = t[:92].rsplit(" ",1)[0] + ellipsis
Shorten(t) ==
  IF Len(t) > TitleLimit THEN RSplitHead(Take(t, CutAt)) \o <<Ellipsis>> ELSE t

\* now stands for int(time.time())
clue_from_title(title, now) ==
  LET t == StripCityPrefix(Strip(title))
      s == starters[(now % Len(starters)) + 1]
  IN  s \o Shorten(t)

\* ----------------------------------------------------------- resolve_url
NewsGoogle == <<"n","e","w","s",".","g","o","o","g","l","e">>
FeedHost == <<"n","e","w","s",".","g","o","o","g","l","e",".","c","o","m","/">>
PublisherHost == <<"p","u","b",".","e","x","a","m","p","l","e","/">>

\* What requests.get does for a link: the request fails, or it succeeds and
\* ends at the publisher's page, or it succeeds without leaving the link.
Responses(link) ==
  { [ok |-> FALSE, url |-> <<>>],
    [ok |-> TRUE,  url |-> link],
    [ok |-> TRUE,  url |-> PublisherHost \o <<link[Len(link)]>>] }

resolve_url_raising(url, resp) ==
  IF resp.ok THEN [raised |-> FALSE, value |-> resp.url]
             ELSE [raised |-> TRUE,  value |-> url]

\* try: return r.url / except Exception: return url
resolve_url(url, resp) ==
  IF resp.ok THEN [raised |-> FALSE, value |-> resp.url]
             ELSE [raised |-> FALSE, value |-> url]

\* ------------------------------------------------------------ feed input
\* "direct": the feed link already points at the publisher; "blank": the
\* entry lacks a title or a link
EntryKinds == {"normal", "direct", "blank"}
EntryId == <<"a","b","c","d","e","f","g","h","i","j","k","l">>

NoFields == [x \in {} |-> x]

\* Entry i of a feed.  Every entry has its own title and link; which of the
\* source, publisher and author fields it carries depends on its position.
\* The white space around titles and links also depends on the position.
Padding == <<" ", "U+00A0", "\n", "U+000B", "\t", "U+2003">>
PadAt(i) == Padding[(i % Len(Padding)) + 1]
\* A blank entry has a title of white space only, no link attribute, or a
\* link of white space only, by position.
MkEntry(i, kind) ==
  (IF kind = "blank" /\ i % 3 = 1 THEN [title |-> <<PadAt(i)>>]
                                  ELSE [title |-> <<PadAt(i),"T",EntryId[i],PadAt(i + 1)>>])
  @@ (CASE kind = "blank" /\ i % 3 = 2 -> NoFields
        [] kind = "blank" /\ i % 3 = 0 -> [link |-> <<PadAt(i)>>]
        [] kind = "direct" -> [link |-> PublisherHost \o <<EntryId[i]>>]
        [] OTHER           -> [link |-> FeedHost \o <<EntryId[i], PadAt(i)>>])
  @@ (CASE i % 4 = 1 -> [source |-> [title |-> [n \in 1..41 |-> "S"] \o <<EntryId[i]>>]]
        [] i % 4 = 2 -> [source |-> [href |-> FeedHost], publisher |-> <<"P",EntryId[i]>>]
        [] i % 4 = 3 -> [author |-> <<"A",EntryId[i]>>]
        [] OTHER     -> NoFields)

\* The feeds of n entries whose kinds repeat with period FeedPeriod.
FeedsOfLen(n) ==
  { [ok |-> TRUE,
     entries |-> [i \in 1..n |-> MkEntry(i, kinds[((i - 1) % FeedPeriod) + 1])]] :
      kinds \in [1..FeedPeriod -> EntryKinds] }
\* feedparser.parse raises
FeedCrash == [ok |-> FALSE, entries |-> <<>>]

CityNames == {"Paris", "Lima"}
CityItems == {[city |-> c] : c \in CityNames} \cup {[name |-> "Oslo"]}
CityLists(n) == UNION {[1..m -> CityItems] : m \in 0..n}
InputFiles ==
  { [kind |-> "missing", cities |-> <<>>],
    [kind |-> "badjson", cities |-> <<>>],
    [kind |-> "nokey",   cities |-> <<>>] }
  \cup {[kind |-> "ok", cities |-> cs] : cs \in CityLists(MaxCities)}

\* getattr(obj, name, default)
Getattr(obj, name, default) ==
  IF name \in DOMAIN obj THEN obj[name] ELSE default

\* ------------------------------------------------------------------ state
VARIABLES citiesFile, world, clock, outFile, writes, pc, cities, ci, city, entries,
          ei, stories, out_packs, calls, last,
          argTitle, argNow, ret, fpc

mainVars == <<citiesFile, world, clock, outFile, writes, pc, cities, ci, city,
              entries, ei, stories, out_packs, calls, last>>
fnVars == <<argTitle, argNow, ret, fpc>>
vars == <<mainVars, fnVars>>

\* what OUT_FILE holds before the run: the document of an earlier run
OldOutput == [generated_at |-> "earlier", packs |-> <<>>]
GeneratedAt == "now"
StoryCap == 4
EntryCap == 8
SourceCap == 40

FnIdle == argTitle = <<>> /\ argNow = 0 /\ ret = <<>> /\ fpc = "idle"

MainStart ==
  /\ clock = 0
  /\ outFile = OldOutput /\ writes = 0
  /\ cities = <<>> /\ ci = 0 /\ city = "" /\ entries = <<>> /\ ei = 0
  /\ stories = <<>> /\ out_packs = <<>> /\ calls = <<>> /\ last = <<>>

\* one city, every feed of up to MaxFeed entries
InitOneCity ==
  /\ citiesFile = [kind |-> "ok", cities |-> <<[city |-> "Paris"]>>]
  /\ \E n \in 0..MaxFeed : \E f \in FeedsOfLen(n) :
        world = [c \in CityNames |-> IF c = "Paris" THEN f ELSE FeedCrash]

\* every input file; a city's feed fails, is empty, or has one entry
MinorFeeds ==
  {FeedCrash} \cup FeedsOfLen(0)
              \cup {[ok |-> TRUE, entries |-> <<MkEntry(1, "normal")>>]}
InitManyCities ==
  /\ citiesFile \in InputFiles
  /\ world \in [CityNames -> MinorFeeds]

Init == (InitOneCity \/ InitManyCities) /\ pc = "start" /\ MainStart /\ FnIdle

\* ------------------------------------------------------------------ main
Abort_flushing(c) ==
  /\ pc' = "aborted"
  /\ city' = c
  /\ outFile' = [generated_at |-> GeneratedAt, packs |-> out_packs]
  /\ writes' = writes + 1
  /\ UNCHANGED <<citiesFile, world, clock, cities, ci, entries, ei, stories,
                 out_packs, calls, last>>

\* an exception nobody catches ends the run (main has no handler); c is the
\* value of the loop variable city at that moment
Abort(c) ==
  /\ pc' = "aborted"
  /\ city' = c
  /\ UNCHANGED <<citiesFile, world, clock, outFile, writes, cities, ci,
                 entries, ei, stories, out_packs, calls, last>>

\* lines 65-66: open(CITIES_FILE) fails, json.load fails, or the document
\* has no "cities" key
LoadFails ==
  /\ pc = "start"
  /\ citiesFile.kind # "ok"
  /\ Abort(city)
  /\ UNCHANGED fnVars

\* lines 65-69
LoadCities ==
  /\ pc = "start"
  /\ citiesFile.kind = "ok"
  /\ cities' = citiesFile.cities
  /\ out_packs' = <<>>
  /\ ci' = 1
  /\ pc' = "city"
  /\ UNCHANGED <<citiesFile, world, clock, outFile, writes, city, entries, ei,
                 stories, calls, last>>
  /\ UNCHANGED fnVars

\* line 72: item["city"] on a record without that key
CityKeyError ==
  /\ pc = "city"
  /\ ci <= Len(cities)
  /\ "city" \notin DOMAIN cities[ci]
  /\ Abort(city)
  /\ UNCHANGED fnVars

\* lines 72-75: city is assigned, then feedparser.parse raises
FeedError ==
  /\ pc = "city"
  /\ ci <= Len(cities)
  /\ "city" \in DOMAIN cities[ci]
  /\ ~world[cities[ci].city].ok
  /\ Abort(cities[ci].city)
  /\ UNCHANGED fnVars

\* lines 71-77: next city, its feed, the first 8 entries
FetchFeed ==
  /\ pc = "city"
  /\ ci <= Len(cities)
  /\ "city" \in DOMAIN cities[ci]
  /\ world[cities[ci].city].ok
  /\ city' = cities[ci].city
  /\ entries' = Take(world[cities[ci].city].entries, EntryCap)
  /\ stories' = <<>>
  /\ calls' = <<>>
  /\ ei' = 1
  /\ pc' = "entry"
  /\ UNCHANGED <<citiesFile, world, clock, outFile, writes, cities, ci, out_packs, last>>
  /\ UNCHANGED fnVars

EntryTitle(e) == Strip(Getattr(e, "title", <<>>))
EntryLink(e) == Strip(Getattr(e, "link", <<>>))

\* lines 87-91
SourceName(e) ==
  LET source == Getattr(e, "source", NoFields)
      name == IF source # NoFields THEN Getattr(source, "title", <<>>) ELSE <<>>
  IN  IF name # <<>> THEN name
      ELSE Or(Or(Getattr(e, "publisher", <<>>), Getattr(e, "author", <<>>)),
              <<"S","o","u","r","c","e">>)

\* lines 92-96
ResolvedStory(e, pub_url) ==
  [headline |-> EntryTitle(e),
   source   |-> Take(SourceName(e), SourceCap),
   url      |-> pub_url]

QuotaReached_late(st) == Len(st) > StoryCap

\* line 97
QuotaReached(st) == Len(st) >= StoryCap

LooksLikeGoogleNews_never(pub_url) == FALSE

\* line 85
LooksLikeGoogleNews(pub_url) == Contains(pub_url, NewsGoogle)

\* lines 78-82: an entry without a title or a link is passed over
SkipBlankEntry ==
  /\ pc = "entry"
  /\ ei <= Len(entries)
  /\ EntryTitle(entries[ei]) = <<>> \/ EntryLink(entries[ei]) = <<>>
  /\ ei' = ei + 1
  /\ UNCHANGED <<citiesFile, world, clock, outFile, writes, pc, cities, ci, city,
                 entries, stories, out_packs, calls, last>>
  /\ UNCHANGED fnVars

\* lines 78-98: one iteration of the loop for an entry with title and link
ResolveEntry ==
  /\ pc = "entry"
  /\ ei <= Len(entries)
  /\ EntryTitle(entries[ei]) # <<>> /\ EntryLink(entries[ei]) # <<>>
  /\ \E resp \in Responses(EntryLink(entries[ei])) :
       LET link == EntryLink(entries[ei])
           r == resolve_url(link, resp)
       IN  /\ last' = <<[url |-> link, resp |-> resp, result |-> r]>>
           /\ IF r.raised
              THEN /\ pc' = "aborted"
                   /\ UNCHANGED <<ei, stories, calls>>
              ELSE /\ calls' = Append(calls, [idx |-> ei, url |-> r.value])
                   /\ IF LooksLikeGoogleNews(r.value)
                      THEN /\ stories' = stories
                           /\ ei' = ei + 1
                           /\ pc' = pc
                      ELSE /\ stories' = Append(stories, ResolvedStory(entries[ei], r.value))
                           /\ IF QuotaReached(stories')
                              THEN pc' = "backfill" /\ ei' = ei
                              ELSE pc' = pc /\ ei' = ei + 1
  /\ UNCHANGED <<citiesFile, world, clock, outFile, writes, cities, ci, city,
                 entries, out_packs>>
  /\ UNCHANGED fnVars

\* line 78: the loop runs out of entries
EntriesDone ==
  /\ pc = "entry"
  /\ ei > Len(entries)
  /\ pc' = "backfill"
  /\ UNCHANGED <<citiesFile, world, clock, outFile, writes, cities, ci, city,
                 entries, ei, stories, out_packs, calls, last>>
  /\ UNCHANGED fnVars

\* lines 103-107
BackfillStory(e) ==
  [headline |-> Or(EntryTitle(e), <<"H","e","a","d","l","i","n","e">>),
   source   |-> <<"G","o","o","g","l","e"," ","N","e","w","s">>,
   url      |-> EntryLink(e)]

BackfillGoesOn_three(st, en) == Len(st) < StoryCap - 1 /\ Len(en) > Len(st)

\* line 101
BackfillGoesOn(st, en) == Len(st) < StoryCap /\ Len(en) > Len(st)

\* lines 101-107: the while loop; entries[len(stories)] is entry Len(st)+1
RECURSIVE BackfillLoop(_, _)
BackfillLoop(st, en) ==
  IF BackfillGoesOn(st, en)
  THEN BackfillLoop(Append(st, BackfillStory(en[Len(st) + 1])), en)
  ELSE st

Backfill ==
  /\ pc = "backfill"
  /\ stories' = BackfillLoop(stories, entries)
  /\ pc' = "pack"
  /\ UNCHANGED <<citiesFile, world, clock, outFile, writes, cities, ci, city,
                 entries, ei, out_packs, calls, last>>
  /\ UNCHANGED fnVars

Cards_three(st, tnows) ==
  [i \in 1..Len(Take(st, StoryCap - 1)) |->
     [emoji |-> pick_emoji(st[i].headline),
      clue  |-> clue_from_title(st[i].headline, tnows[i])]]

\* lines 109-112; tnows[i] is what int(time.time()) gives for card i
Cards(st, tnows) ==
  [i \in 1..Len(Take(st, StoryCap)) |->
     [emoji |-> pick_emoji(st[i].headline),
      clue  |-> clue_from_title(st[i].headline, tnows[i])]]

\* lines 114-119
Pack(c, st, tnows) ==
  [city |-> c, cards |-> Cards(st, tnows), stories |-> Take(st, StoryCap)]

AddPack_nonempty(packs, p) == IF p.stories = <<>> THEN packs ELSE Append(packs, p)

\* line 114: out_packs.append
AddPack(packs, p) == Append(packs, p)

\* lines 109-119; the clock is read once for every card.  clock is the
\* latest reading of int(time.time()), in seconds from the start of the run;
\* the wall clock is taken not to be set back while the run lasts.
BuildPack ==
  /\ pc = "pack"
  /\ \E tnows \in [1..Len(Take(stories, StoryCap)) -> clock..MaxTime] :
       /\ \A i, j \in DOMAIN tnows : i <= j => tnows[i] <= tnows[j]
       /\ out_packs' = AddPack(out_packs, Pack(city, stories, tnows))
       /\ clock' = IF tnows = <<>> THEN clock ELSE tnows[Len(tnows)]
  /\ ci' = ci + 1
  /\ pc' = "city"
  /\ UNCHANGED <<citiesFile, world, outFile, writes, cities, city, entries,
                 ei, stories, calls, last>>
  /\ UNCHANGED fnVars

\* line 71: no city left
CitiesDone ==
  /\ pc = "city"
  /\ ci > Len(cities)
  /\ pc' = "write"
  /\ UNCHANGED <<citiesFile, world, clock, outFile, writes, cities, ci, city,
                 entries, ei, stories, out_packs, calls, last>>
  /\ UNCHANGED fnVars

\* lines 121-124
WriteOutput ==
  /\ pc = "write"
  /\ outFile' = [generated_at |-> GeneratedAt, packs |-> out_packs]
  /\ writes' = writes + 1
  /\ pc' = "done"
  /\ UNCHANGED <<citiesFile, world, clock, cities, ci, city, entries, ei, stories,
                 out_packs, calls, last>>
  /\ UNCHANGED fnVars

Next ==
  \/ LoadFails \/ LoadCities \/ CityKeyError \/ FeedError \/ FetchFeed
  \/ SkipBlankEntry \/ ResolveEntry \/ EntriesDone \/ Backfill \/ BuildPack
  \/ CitiesDone \/ WriteOutput

Spec == Init /\ [][Next]_vars

\* ------------------------------------------- the two pure functions alone
MainIdle ==
  /\ citiesFile = [kind |-> "missing", cities |-> <<>>]
  /\ world = [c \in CityNames |-> FeedCrash]
  /\ pc = "idle"
  /\ MainStart

\* n characters with a space at every p-th position (no space when p = 0)
ClueBody(n, p) == [i \in 1..n |-> IF p > 0 /\ i % p = 0 THEN " " ELSE "a"]
CluePrefixes ==
  { <<>>,
    <<" ", "\t">>,
    <<"P","a","r","i","s"," ",EmDash," ">>,
    <<"N","e","w","-","Y","o","r","k"," "," ",EmDash," "," ">>,
    <<"p","a","r","i","s"," ",EmDash," ">>,
    <<"P","a","r","i","s",EmDash," ">>,
    <<"P","a","r","i","s","U+00A0",EmDash," ">>,
    <<"U+000B","P","a","r","i","s"," ",EmDash,"U+2003">> }
SpacePeriods == {0, 7, 46, 93}
ClueTitles ==
  { pre \o ClueBody(n, p) : pre \in CluePrefixes, n \in 0..MaxTitleLen, p \in SpacePeriods }
  \cup { <<"P","a","r","i","s"," ",EmDash," ","C","i","t","y"," ","U","n","v","e","i","l","s"," ","N","e","w"," ","M","e","t","r","o"," ","L","i","n","e">> }

InitClue ==
  /\ argTitle \in ClueTitles
  /\ argNow \in 0..(Len(starters) + MaxTime)
  /\ ret = <<>>
  /\ fpc = "call"
  /\ MainIdle

CallClue ==
  /\ fpc = "call"
  /\ ret' = clue_from_title(argTitle, argNow)
  /\ fpc' = "ret"
  /\ UNCHANGED <<argTitle, argNow>>
  /\ UNCHANGED mainVars

NextClue == CallClue
SpecClue == InitClue /\ [][NextClue]_vars

WordPool ==
  { <<"e","a","r","t","h","q","u","a","k","e">>,
    <<"E","a","r","t","h","q","u","a","k","e","s">>,
    <<"t","r","a","i","n">>,
    <<"M","e","t","r","o">>,
    <<"m","a","y","o","r">>,
    <<"a","r","t">>,
    <<"p","o","r","t">>,
    <<"c","a","l","m">>,
    <<"F","U+0130","L","M">>,
    <<"U+017F","t","o","r","m">> }

RECURSIVE Join(_)
Join(ws) ==
  IF Len(ws) = 0 THEN <<>>
  ELSE IF Len(ws) = 1 THEN ws[1]
  ELSE ws[1] \o <<" ">> \o Join(Tail(ws))

EmojiHeadlines == {Join(ws) : ws \in UNION {[1..n -> WordPool] : n \in 0..MaxWords}}

InitEmoji ==
  /\ argTitle \in EmojiHeadlines
  /\ argNow = 0
  /\ ret = <<>>
  /\ fpc = "call"
  /\ MainIdle

CallEmoji ==
  /\ fpc = "call"
  /\ ret' = <<pick_emoji(argTitle)>>
  /\ fpc' = "ret"
  /\ UNCHANGED <<argTitle, argNow>>
  /\ UNCHANGED mainVars

NextEmoji == CallEmoji
SpecEmoji == InitEmoji /\ [][NextEmoji]_vars

\* ------------------------------------------------------------ properties
Min2(a, b) == IF a < b THEN a ELSE b

\* A pack has been appended, and entries and calls are still those of the
\* city it was built for (city itself may already be the next one, whose
\* feed failed).
Built == pc \in {"city", "write", "done", "aborted"} /\ out_packs # <<>>
LastPack == out_packs[Len(out_packs)]

IsAccepted(c) == ~Contains(c.url, NewsGoogle)
\* the resolve_url calls of the current city whose result the loop kept
Accepted == SelectSeq(calls, IsAccepted)
AcceptedIdx == {Accepted[k].idx : k \in 1..Len(Accepted)}
CalledIdx == {calls[k].idx : k \in 1..Len(calls)}
HasTitleAndLink(e) == EntryTitle(e) # <<>> /\ EntryLink(e) # <<>>
GoogleNews == <<"G","o","o","g","l","e"," ","N","e","w","s">>

\* C1: in every pack produced, whatever the feed held, the number of cards
\* equals the number of stories and both are at most 4.
C1_CardsMatchStories ==
  /\ \A i \in 1..Len(out_packs) :
       /\ Len(out_packs[i].cards) = Len(out_packs[i].stories)
       /\ Len(out_packs[i].stories) <= 4
  /\ pc = "done" =>
       \A i \in 1..Len(outFile.packs) :
         /\ Len(outFile.packs[i].cards) = Len(outFile.packs[i].stories)
         /\ Len(outFile.packs[i].stories) <= 4

\* a feed of more than 8 entries gave a full pack that mixes resolved and
\* backfilled stories
C1_Witness ==
  /\ Built
  /\ Len(world[LastPack.city].entries) > EntryCap
  /\ Len(LastPack.stories) = 4 /\ Len(LastPack.cards) = 4
  /\ LastPack.stories[1].source # GoogleNews
  /\ LastPack.stories[4].source = GoogleNews
  /\ \E i \in 1..Len(entries) : ~HasTitleAndLink(entries[i])

\* C2: a feed of 8 entries, all with title and link and every resolution
\* ending outside the aggregator domain, gives exactly 4 stories, story i
\* built from entry i with its resolved URL, and no entry after the 4th is
\* resolved.
C2_FirstFourInOrder ==
  ( /\ Built
    /\ Len(world[LastPack.city].entries) = 8
    /\ \A i \in 1..Len(entries) : HasTitleAndLink(entries[i])
    /\ \A k \in 1..Len(calls) : IsAccepted(calls[k]) )
  => /\ Len(LastPack.stories) = 4
     /\ Len(calls) = 4
     /\ \A i \in 1..4 :
          /\ calls[i].idx = i
          /\ LastPack.stories[i] = ResolvedStory(entries[i], calls[i].url)
          /\ LastPack.stories[i].headline = <<"T", EntryId[i]>>

C2_Witness ==
  /\ Built
  /\ Len(world[LastPack.city].entries) = 8
  /\ \A i \in 1..Len(entries) : HasTitleAndLink(entries[i])
  /\ \A k \in 1..Len(calls) : IsAccepted(calls[k])
  /\ Len(LastPack.stories) = 4
  /\ LastPack.stories[2].url = PublisherHost \o <<"b">>

\* C3: when fewer than 4 stories were resolved and the feed has more
\* entries than stories, every backfilled slot holds an entry that is not
\* already in the pack as a resolved story, with that entry's own link and
\* the source "Google News"; so no entry is in a pack twice.
C3_BackfillFromUnresolved ==
  ( /\ Built
    /\ Len(Accepted) < 4
    /\ Len(entries) > Len(Accepted) )
  => \A k \in (Len(Accepted) + 1)..Len(LastPack.stories) :
       \E j \in (1..Len(entries)) \ AcceptedIdx :
         /\ LastPack.stories[k].url = EntryLink(entries[j])
         /\ LastPack.stories[k].source = GoogleNews

\* C4: an entry whose resolved URL still contains "news.google" is skipped
\* and does not use up the quota: the first 4 entries that have a title and
\* a link and resolve elsewhere are the first stories of the pack, in feed
\* order, however many aggregator entries come before them.
C4_SkippedDoNotCount ==
  Built =>
    /\ Len(Accepted) <= 4
    /\ Len(LastPack.stories) >= Len(Accepted)
    /\ \A k \in 1..Len(Accepted) :
         LastPack.stories[k] = ResolvedStory(entries[Accepted[k].idx], Accepted[k].url)
    /\ \A i \in 1..Len(entries) :
         ( /\ HasTitleAndLink(entries[i])
           /\ (Len(Accepted) < 4 \/ i <= Accepted[4].idx) )
         => i \in CalledIdx

\* four entries were kept although aggregator entries came before them
C4_Witness ==
  /\ Built
  /\ Len(Accepted) = 4
  /\ Len(calls) >= 6
  /\ ~IsAccepted(calls[1]) /\ ~IsAccepted(calls[2])
  /\ Accepted[4].idx = 8

\* C10: a pack holds exactly min(4, n) stories, n being the number of feed
\* entries after the cap of 8.
C10_StoryCount ==
  Built => Len(LastPack.stories) = Min2(4, Min2(8, Len(world[LastPack.city].entries)))

\* nothing resolved, and the backfill alone filled the pack
C10_Witness ==
  /\ Built
  /\ Len(world[LastPack.city].entries) >= 4
  /\ Len(Accepted) = 0
  /\ Len(LastPack.stories) = 4
  /\ \E i \in 1..4 : EntryTitle(entries[i]) = <<>>

\* C7: the output file is written at most once, and only when every city
\* has been processed; a run that aborts leaves the file as it was.
C7_WriteOnlyAtEnd ==
  /\ [](writes <= 1)
  /\ [](pc = "aborted" => outFile = OldOutput /\ writes = 0)
  /\ [][(outFile' # outFile \/ writes' # writes)
          => /\ writes = 0
             /\ pc = "write" /\ pc' = "done"
             /\ Len(out_packs) = Len(cities)
             /\ cities = citiesFile.cities
             /\ outFile'.packs = out_packs]_vars

\* a run aborted after its first city had been packed
C7_Witness ==
  /\ pc = "aborted"
  /\ Len(out_packs) >= 1
  /\ outFile = OldOutput

\* C8: a run that completes writes one pack per input city, in input order,
\* and a city whose feed had no entries gets a pack without cards and
\* stories.
C8_OnePackPerCity ==
  pc = "done" =>
    /\ Len(outFile.packs) = Len(citiesFile.cities)
    /\ \A i \in 1..Len(citiesFile.cities) :
         /\ outFile.packs[i].city = citiesFile.cities[i].city
         /\ world[citiesFile.cities[i].city].entries = <<>> =>
              /\ outFile.packs[i].cards = <<>>
              /\ outFile.packs[i].stories = <<>>

C8_Witness ==
  /\ pc = "done"
  /\ Len(citiesFile.cities) = 2
  /\ citiesFile.cities[1].city = "Lima" /\ citiesFile.cities[2].city = "Paris"
  /\ world["Lima"].entries = <<>>
  /\ outFile.packs[2].stories # <<>>

\* C9: resolve_url returns the final URL of a request that succeeds and the
\* link it was given when the request fails, and never raises; a failed
\* resolution does not abort the run, and the city gets its pack.
C9_ResolveFailOpen ==
  /\ [](last # <<>> =>
          /\ ~last[1].result.raised
          /\ last[1].result.value = IF last[1].resp.ok THEN last[1].resp.url ELSE last[1].url)
  /\ [][pc = "entry" => pc' \in {"entry", "backfill"}]_vars
  /\ [][pc = "backfill" => pc' = "pack"]_vars
  /\ [][pc = "pack" => /\ pc' = "city"
                       /\ Len(out_packs') = Len(out_packs) + 1
                       /\ out_packs'[Len(out_packs')].city = city]_vars

\* the last request of a city failed; its link was used as it was and the
\* city has its pack
C9_Witness ==
  /\ Built
  /\ last # <<>>
  /\ ~last[1].resp.ok
  /\ LastPack.city = city
  /\ \E k \in 1..Len(LastPack.stories) :
       /\ LastPack.stories[k].url = last[1].url
       /\ LastPack.stories[k].source # GoogleNews

\* C5 as stated: clue_from_title never returns more than 96 characters.
C5_AtMost96 == fpc = "ret" => Len(ret) <= 96

\* C5 (amended): the headline part of the clue, which follows the lead-in
\* phrase, is never longer than 95 characters, so the clue is never longer
\* than its lead-in plus 95 characters, 134 at most.
C5_HeadlinePartAtMost95 ==
  fpc = "ret" =>
    LET s == starters[(argNow % 4) + 1]
    IN  /\ Len(ret) >= Len(s)
        /\ SubSeq(ret, 1, Len(s)) = s
        /\ Len(ret) - Len(s) <= 95
        /\ Len(ret) <= 134

\* a title of more than 95 characters was cut and ends with the ellipsis
C5_Witness ==
  /\ fpc = "ret"
  /\ Len(Strip(argTitle)) > 95
  /\ ret[Len(ret)] = Ellipsis
  /\ Len(ret) > 96

TransitWords ==
  { <<"s","u","b","w","a","y">>, <<"m","e","t","r","o">>, <<"r","a","i","l">>,
    <<"t","r","a","i","n">>, <<"a","i","r","p","o","r","t">>,
    <<"f","l","i","g","h","t">>, <<"t","r","a","n","s","i","t">> }
Earthquake == <<"e","a","r","t","h","q","u","a","k","e">>

\* C6: pick_emoji returns the emoji of the first rule, in EMOJI_RULES order,
\* whose pattern matches, and the default emoji when none does; a headline
\* with "earthquake" and no transit word gets the weather emoji whatever
\* other keywords it has.
C6_FirstMatchWins ==
  fpc = "ret" =>
    /\ \A i \in 1..Len(EMOJI_RULES) :
         ( /\ Search(EMOJI_RULES[i].rx, argTitle)
           /\ \A j \in 1..(i - 1) : ~Search(EMOJI_RULES[j].rx, argTitle) )
         => ret[1] = EMOJI_RULES[i].em
    /\ (\A i \in 1..Len(EMOJI_RULES) : ~Search(EMOJI_RULES[i].rx, argTitle))
         => ret[1] = "U+1F4F0"
    /\ ( /\ Contains(LowerStr(argTitle), Earthquake)
         /\ \A w \in TransitWords : ~Contains(LowerStr(argTitle), w) )
         => ret[1] = "U+1F327 U+FE0F"

\* an earthquake headline that also names politics and art
C6_Witness ==
  /\ fpc = "ret"
  /\ Contains(argTitle, <<"m","a","y","o","r"," ","E","a","r","t","h","q","u","a","k","e","s">>)
  /\ Contains(argTitle, <<"p","o","r","t">>)
  /\ ret[1] = WeatherEmoji
====
